---- MODULE Spec2Model ----
(* Model of gsuite: credential acquisition (gsuite/auth.py) and the thin      *)
(* Directory / Sheets clients (gsuite/google_groups.py, google_sheets.py).    *)
EXTENDS Integers, Sequences, FiniteSets, TLC

(* ------------------------------------------------------------------------ *)
(* Bounds                                                                   *)
(* ------------------------------------------------------------------------ *)
MaxTime == 2        \* the clock runs over 0..MaxTime
MaxTok == 2         \* number of access tokens the authorization server issues
MaxLifetime == 1    \* a fresh token lives 1..MaxLifetime clock ticks

(* ------------------------------------------------------------------------ *)
(* Python values                                                            *)
(* ------------------------------------------------------------------------ *)
None == <<>>
Some(x) == <<x>>
Val(o) == o[1]

Procs == {1, 2}          \* callers that may run an acquisition
SingleCaller == {1}      \* the single-threaded setting of the library

\* oauth2_scopes handed to get_credentials by the two client constructors
GroupsScopes == <<"admin.directory.group", "admin.directory.group.member", "apps.groups.settings">>
SheetsScopes == <<"spreadsheets">>
ScopeLists == {GroupsScopes, SheetsScopes}

\* the two literals get_credentials compares auth_mode with
server_side == "server_side"
service_account == "service_account"
AuthModes == {server_side, service_account, "interactive", ""}

\* client_secrets inputs, and what json.loads does on each of them
InlineJson == {"{\"type\": \"service_account\"}", "123"}
NotJson == {"key.json", "{bad"}
ClientSecrets == InlineJson \cup NotJson
json_loads_ok(s) == s \in InlineJson

Emails == {None, Some("admin@example.com")}
Ports == {None, Some(8080)}

ArgSets == [auth_mode : AuthModes, client_secrets : ClientSecrets,
            oauth2_scopes : ScopeLists, delegated_email_address : Emails,
            local_server_port : Ports]

NoArgs == [auth_mode |-> "", client_secrets |-> "key.json",
           oauth2_scopes |-> SheetsScopes, delegated_email_address |-> None,
           local_server_port |-> None]

(* ------------------------------------------------------------------------ *)
(* Credentials and their pickled form                                       *)
(* ------------------------------------------------------------------------ *)
\* google.oauth2.credentials.Credentials as used by the flow
OAuthCred(tok, exp, rt, sc) ==
    [kind |-> "oauth2", token |-> tok, expiry |-> exp, refresh_token |-> rt,
     scopes |-> sc, subject |-> None]

\* google.oauth2.service_account.Credentials
ServiceCred(sc, subj) ==
    [kind |-> "service_account", token |-> None, expiry |-> None,
     refresh_token |-> None, scopes |-> sc, subject |-> subj]

\* credentials.expired / credentials.valid at clock t
Expired(c, t) == c.expiry # None /\ t >= Val(c.expiry)
Valid(c, t) == c.token # None /\ ~Expired(c, t)

\* variant: only the access token and its expiry are saved
pickle_dump_lossy(c) == <<"PICKLE", c.kind, c.token, c.expiry, None, c.scopes, c.subject>>

\* pickle.dump: the credential becomes a tagged tuple of its fields
pickle_dump(c) == <<"PICKLE", c.kind, c.token, c.expiry, c.refresh_token, c.scopes, c.subject>>

\* pickle.load succeeds only on a complete pickle; a truncated file raises
pickle_loadable(b) == Len(b) = 7 /\ b[1] = "PICKLE"
pickle_load(b) ==
    [kind |-> b[2], token |-> b[3], expiry |-> b[4], refresh_token |-> b[5],
     scopes |-> b[6], subject |-> b[7]]

Truncated == <<>>
NoFile == [exists |-> FALSE, data |-> Truncated]

\* a token file left at the path by an earlier program: a credential object
\* that carries a refresh token but no access token and no expiry
StaleCred == OAuthCred(None, None, Some("rt"), SheetsScopes)
InitFiles == {NoFile, [exists |-> TRUE, data |-> pickle_dump(StaleCred)]}

(* ------------------------------------------------------------------------ *)
(* State                                                                    *)
(* ------------------------------------------------------------------------ *)
VARIABLES
    file,         \* the token file "token.pickle": [exists, data]
    now,          \* the clock
    nextTok,      \* tokens issued so far by the authorization server
    pc,           \* pc[p]: position of caller p inside get_credentials
    args,         \* args[p]: arguments of p's current call
    credentials,  \* credentials[p]: the local variable `credentials`
    handle,       \* handle[p]: open handle on the token file: "none", "rb", "wb"
    events,       \* events[p]: what the current call has done so far, in order
    chk,          \* chk[p]: the cached credential and clock seen by line 125
    file0,        \* file0[p]: the token file when the current call started
    result,       \* result[p]: the returned credential
    err,          \* err[p]: the exception that ended the call, "" if none
    last          \* the last client operation: its request(s) and outcome

authVars == <<file, now, nextTok, pc, args, credentials, handle, events, chk, file0, result, err>>
vars == <<file, now, nextTok, pc, args, credentials, handle, events, chk, file0, result, err, last>>

NoChk == [seen |-> FALSE, cred |-> None, now |-> 0]
NoOp == [op |-> "none", args |-> <<>>, calls |-> <<>>, ret |-> None, err |-> ""]

Done(p) == pc[p] \in {"returned", "raised"}

Init ==
    /\ file \in InitFiles
    /\ now = 0
    /\ nextTok = 0
    /\ pc = [p \in Procs |-> "idle"]
    /\ args = [p \in Procs |-> NoArgs]
    /\ credentials = [p \in Procs |-> None]
    /\ handle = [p \in Procs |-> "none"]
    /\ events = [p \in Procs |-> <<>>]
    /\ chk = [p \in Procs |-> NoChk]
    /\ file0 = [p \in Procs |-> NoFile]
    /\ result = [p \in Procs |-> None]
    /\ err = [p \in Procs |-> ""]
    /\ last = NoOp

(* ------------------------------------------------------------------------ *)
(* get_credentials (auth.py 10-65)                                          *)
(* ------------------------------------------------------------------------ *)
\* variant: any mode other than service_account is taken as server_side
Dispatch_lax(a) ==
    IF a.auth_mode = service_account
    THEN IF a.delegated_email_address = None
         THEN [pc |-> "raised", err |-> "ValueError: delegated_email_address", ev |-> <<>>]
         ELSE [pc |-> "sa_auth", err |-> "", ev |-> <<"service_account_auth">>]
    ELSE IF a.local_server_port = None
         THEN [pc |-> "raised", err |-> "ValueError: local_server_port", ev |-> <<>>]
         ELSE [pc |-> "ssw_exists", err |-> "", ev |-> <<"server_side_web_apps_auth">>]

\* variant: each mode checks the other mode's parameter
Dispatch_swapped(a) ==
    IF a.auth_mode = server_side
    THEN IF a.delegated_email_address = None
         THEN [pc |-> "raised", err |-> "ValueError: local_server_port", ev |-> <<>>]
         ELSE [pc |-> "ssw_exists", err |-> "", ev |-> <<"server_side_web_apps_auth">>]
    ELSE IF a.auth_mode = service_account
    THEN IF a.local_server_port = None
         THEN [pc |-> "raised", err |-> "ValueError: delegated_email_address", ev |-> <<>>]
         ELSE [pc |-> "sa_auth", err |-> "", ev |-> <<"service_account_auth">>]
    ELSE [pc |-> "raised", err |-> "ValueError: auth_mode", ev |-> <<>>]

\* variant: the first mode literal is spelled "interactive"
Dispatch_interactive(a) ==
    IF a.auth_mode = "interactive"
    THEN IF a.local_server_port = None
         THEN [pc |-> "raised", err |-> "ValueError: local_server_port", ev |-> <<>>]
         ELSE [pc |-> "ssw_exists", err |-> "", ev |-> <<"server_side_web_apps_auth">>]
    ELSE IF a.auth_mode = service_account
    THEN IF a.delegated_email_address = None
         THEN [pc |-> "raised", err |-> "ValueError: delegated_email_address", ev |-> <<>>]
         ELSE [pc |-> "sa_auth", err |-> "", ev |-> <<"service_account_auth">>]
    ELSE [pc |-> "raised", err |-> "ValueError: auth_mode", ev |-> <<>>]

\* where the dispatch of lines 30-63 sends a call: a helper or a ValueError
Dispatch(a) ==
    IF a.auth_mode = server_side
    THEN IF a.local_server_port = None
         THEN [pc |-> "raised", err |-> "ValueError: local_server_port", ev |-> <<>>]
         ELSE [pc |-> "ssw_exists", err |-> "", ev |-> <<"server_side_web_apps_auth">>]
    ELSE IF a.auth_mode = service_account
    THEN IF a.delegated_email_address = None
         THEN [pc |-> "raised", err |-> "ValueError: delegated_email_address", ev |-> <<>>]
         ELSE [pc |-> "sa_auth", err |-> "", ev |-> <<"service_account_auth">>]
    ELSE [pc |-> "raised", err |-> "ValueError: auth_mode", ev |-> <<>>]

\* a call of get_credentials with arguments drawn from A; the caller holds no
\* client object while the call runs
CallWith(p, A) ==
    /\ pc[p] \in {"idle", "returned", "raised"}
    /\ \E a \in A :
         LET d == Dispatch(a) IN
         /\ args' = [args EXCEPT ![p] = a]
         /\ pc' = [pc EXCEPT ![p] = d.pc]
         /\ err' = [err EXCEPT ![p] = d.err]
         /\ events' = [events EXCEPT ![p] = d.ev]
    /\ credentials' = [credentials EXCEPT ![p] = None]
    /\ chk' = [chk EXCEPT ![p] = NoChk]
    /\ file0' = [file0 EXCEPT ![p] = file]
    /\ result' = [result EXCEPT ![p] = None]
    /\ last' = NoOp
    /\ UNCHANGED <<file, now, nextTok, handle>>

GetCredentials(p) == CallWith(p, ArgSets)

(* ------------------------------------------------------------------------ *)
(* server_side_web_apps_auth (auth.py 101-139), one action per statement    *)
(* ------------------------------------------------------------------------ *)
Log(p, e) == [events EXCEPT ![p] = Append(@, e)]

\* variant: remote errors are wrapped in an error of the library
Propagate_translated(e) == IF e = "" THEN "" ELSE "GSuiteError"

\* an exception raised by a remote call leaves the function as it is: neither
\* the credential flow nor a client operation has a try / except around it
Propagate(e) == e

\* line 120: os.path.exists(token_file)
SswExists(p) ==
    /\ pc[p] = "ssw_exists"
    /\ events' = Log(p, "exists")
    /\ pc' = [pc EXCEPT ![p] = IF file.exists THEN "ssw_open_rb" ELSE "ssw_check"]
    /\ UNCHANGED <<file, now, nextTok, args, credentials, handle, chk, file0, result, err, last>>

\* line 121: open(token_file, "rb") enters the with block
SswOpenRead(p) ==
    /\ pc[p] = "ssw_open_rb"
    /\ file.exists
    /\ handle' = [handle EXCEPT ![p] = "rb"]
    /\ events' = Log(p, "open_rb")
    /\ pc' = [pc EXCEPT ![p] = "ssw_load"]
    /\ UNCHANGED <<file, now, nextTok, args, credentials, chk, file0, result, err, last>>

\* line 122: pickle.load(token); an incomplete pickle raises inside the with
SswLoad(p) ==
    /\ pc[p] = "ssw_load"
    /\ events' = Log(p, "load")
    /\ IF pickle_loadable(file.data)
       THEN /\ credentials' = [credentials EXCEPT ![p] = Some(pickle_load(file.data))]
            /\ err' = err
       ELSE /\ credentials' = credentials
            /\ err' = [err EXCEPT ![p] = "UnpicklingError"]
    /\ pc' = [pc EXCEPT ![p] = "ssw_close_rb"]
    /\ UNCHANGED <<file, now, nextTok, args, handle, chk, file0, result, last>>

\* variant: close() as a plain statement after the body, skipped by an exception
Released_skipped(h, e) == IF e = "" THEN "none" ELSE h

\* the handle after the with statement is left, normally or by an exception
\* (e is the pending exception, "" if none)
Released(h, e) == "none"

\* end of the with block of lines 121-122: the handle is closed, then the
\* pending exception (if any) leaves the function
SswCloseRead(p) ==
    /\ pc[p] = "ssw_close_rb"
    /\ handle' = [handle EXCEPT ![p] = Released(@, err[p])]
    /\ pc' = [pc EXCEPT ![p] = IF err[p] = "" THEN "ssw_check" ELSE "raised"]
    /\ UNCHANGED <<file, now, nextTok, args, credentials, events, chk, file0, result, err, last>>

\* variant: the cached credential is never trusted
NeedsAuth_always(c, t) == TRUE

\* variant: a credential about to expire is already treated as not valid
NeedsAuth_early(c, t) == c = None \/ ~Valid(Val(c), t + 1)

\* line 125: not credentials or not credentials.valid
NeedsAuth(c, t) == c = None \/ ~Valid(Val(c), t)

\* variant: the refresh token is not checked
CanRefresh_unchecked(c, t) == c # None /\ Expired(Val(c), t)

\* line 126: credentials and credentials.expired and credentials.refresh_token
CanRefresh(c, t) == c # None /\ Expired(Val(c), t) /\ Val(c).refresh_token # None

\* lines 125-128 and 139: return the cached credential, or pick refresh / flow
SswCheck(p) ==
    /\ pc[p] = "ssw_check"
    /\ chk' = [chk EXCEPT ![p] = [seen |-> TRUE, cred |-> credentials[p], now |-> now]]
    /\ IF NeedsAuth(credentials[p], now)
       THEN /\ pc' = [pc EXCEPT ![p] = IF CanRefresh(credentials[p], now)
                                       THEN "ssw_refresh" ELSE "ssw_flow"]
            /\ result' = result
       ELSE /\ pc' = [pc EXCEPT ![p] = "returned"]
            /\ result' = [result EXCEPT ![p] = credentials[p]]
    /\ UNCHANGED <<file, now, nextTok, args, credentials, handle, events, file0, err, last>>

RemoteErrors == {"RefreshError", "TransportError"}
FlowErrors == {"AccessDeniedError", "TransportError"}

\* line 127: credentials.refresh(Request()) updates the credential in place
SswRefresh(p) ==
    /\ pc[p] = "ssw_refresh"
    /\ \/ /\ nextTok < MaxTok
          /\ events' = Log(p, "refresh")
          /\ \E l \in 1..MaxLifetime :
               credentials' = [credentials EXCEPT ![p] =
                   Some([Val(@) EXCEPT !.token = Some(nextTok + 1), !.expiry = Some(now + l)])]
          /\ nextTok' = nextTok + 1
          /\ pc' = [pc EXCEPT ![p] = "ssw_open_wb"]
          /\ err' = err
       \/ /\ \E e \in RemoteErrors :
               /\ events' = [events EXCEPT ![p] = @ \o <<"refresh", e>>]
               /\ err' = [err EXCEPT ![p] = Propagate(e)]
          /\ pc' = [pc EXCEPT ![p] = "raised"]
          /\ UNCHANGED <<credentials, nextTok>>
    /\ UNCHANGED <<file, now, args, handle, chk, file0, result, last>>

\* lines 129-133: InstalledAppFlow.from_client_secrets_file, run_local_server
SswFlow(p) ==
    /\ pc[p] = "ssw_flow"
    /\ \/ \* the client secrets file cannot be read: no consent is started
          /\ events' = Log(p, "from_client_secrets_file")
          /\ err' = [err EXCEPT ![p] = "FileNotFoundError"]
          /\ pc' = [pc EXCEPT ![p] = "raised"]
          /\ UNCHANGED <<credentials, nextTok>>
       \/ \* consent given, the authorization code is exchanged for tokens
          /\ nextTok < MaxTok
          /\ events' = [events EXCEPT ![p] = @ \o <<"from_client_secrets_file", "consent">>]
          /\ \E l \in 1..MaxLifetime, rt \in {None, Some("rt")} :
               credentials' = [credentials EXCEPT ![p] =
                   Some(OAuthCred(Some(nextTok + 1), Some(now + l), rt, args[p].oauth2_scopes))]
          /\ nextTok' = nextTok + 1
          /\ pc' = [pc EXCEPT ![p] = "ssw_open_wb"]
          /\ err' = err
       \/ \* consent denied or the code exchange fails
          /\ \E e \in FlowErrors :
               /\ events' = [events EXCEPT ![p] = @ \o <<"from_client_secrets_file", "consent", e>>]
               /\ err' = [err EXCEPT ![p] = Propagate(e)]
          /\ pc' = [pc EXCEPT ![p] = "raised"]
          /\ UNCHANGED <<credentials, nextTok>>
    /\ UNCHANGED <<file, now, args, handle, chk, file0, result, last>>

\* line 136: open(token_file, "wb") creates the file or truncates it
SswOpenWrite(p) ==
    /\ pc[p] = "ssw_open_wb"
    /\ file' = [exists |-> TRUE, data |-> Truncated]
    /\ handle' = [handle EXCEPT ![p] = "wb"]
    /\ events' = Log(p, "open_wb")
    /\ pc' = [pc EXCEPT ![p] = "ssw_dump"]
    /\ UNCHANGED <<now, nextTok, args, credentials, chk, file0, result, err, last>>

\* variant: pickle.dumps(credentials) is called, which writes nothing
SswDump_dumps(p) ==
    /\ pc[p] = "ssw_dump"
    /\ events' = Log(p, "dump")
    /\ pc' = [pc EXCEPT ![p] = "ssw_close_wb"]
    /\ UNCHANGED <<file, now, nextTok, args, credentials, handle, chk, file0, result, err, last>>

\* line 137: pickle.dump(credentials, token); a failing dump writes nothing
SswDump(p) ==
    /\ pc[p] = "ssw_dump"
    /\ events' = Log(p, "dump")
    /\ \/ /\ file' = [exists |-> TRUE, data |-> pickle_dump(Val(credentials[p]))]
          /\ err' = err
       \/ /\ err' = [err EXCEPT ![p] = "PicklingError"]
          /\ file' = file
    /\ pc' = [pc EXCEPT ![p] = "ssw_close_wb"]
    /\ UNCHANGED <<now, nextTok, args, credentials, handle, chk, file0, result, last>>

\* end of the with block of lines 136-137, then line 139
SswCloseWrite(p) ==
    /\ pc[p] = "ssw_close_wb"
    /\ handle' = [handle EXCEPT ![p] = Released(@, err[p])]
    /\ IF err[p] = ""
       THEN /\ pc' = [pc EXCEPT ![p] = "returned"]
            /\ result' = [result EXCEPT ![p] = credentials[p]]
       ELSE /\ pc' = [pc EXCEPT ![p] = "raised"]
            /\ result' = result
    /\ UNCHANGED <<file, now, nextTok, args, credentials, events, chk, file0, err, last>>

(* ------------------------------------------------------------------------ *)
(* service_account_auth (auth.py 68-98)                                     *)
(* ------------------------------------------------------------------------ *)
\* variant: the except branch builds from the parsed info as well
Constructor_info(s) == "from_service_account_info"

\* lines 81-98: which constructor the try / except JSONDecodeError reaches
Constructor(s) ==
    IF json_loads_ok(s) THEN "from_service_account_info" ELSE "from_service_account_file"

ServiceAccountAuth(p) ==
    /\ pc[p] = "sa_auth"
    /\ events' = [events EXCEPT ![p] = @ \o <<"json.loads", Constructor(args[p].client_secrets)>>]
    /\ \/ /\ pc' = [pc EXCEPT ![p] = "returned"]
          /\ result' = [result EXCEPT ![p] =
                 Some(ServiceCred(args[p].oauth2_scopes, args[p].delegated_email_address))]
          /\ err' = err
       \/ \* the key material is malformed or the key file is unreadable
          /\ pc' = [pc EXCEPT ![p] = "raised"]
          /\ err' = [err EXCEPT ![p] = IF json_loads_ok(args[p].client_secrets)
                                       THEN "ValueError: key" ELSE "FileNotFoundError"]
          /\ result' = result
    /\ UNCHANGED <<file, now, nextTok, args, credentials, handle, chk, file0, last>>

\* time passes
Tick ==
    /\ now < MaxTime
    /\ now' = now + 1
    /\ UNCHANGED <<file, nextTok, pc, args, credentials, handle, events, chk, file0, result, err, last>>

Step(p) ==
    \/ GetCredentials(p)
    \/ SswExists(p)
    \/ SswOpenRead(p)
    \/ SswLoad(p)
    \/ SswCloseRead(p)
    \/ SswCheck(p)
    \/ SswRefresh(p)
    \/ SswFlow(p)
    \/ SswOpenWrite(p)
    \/ SswDump(p)
    \/ SswCloseWrite(p)
    \/ ServiceAccountAuth(p)

Next ==
    \/ \E p \in SingleCaller : Step(p)
    \/ Tick

Spec == Init /\ [][Next]_vars

(* ------------------------------------------------------------------------ *)
(* Directory and Spreadsheet clients (google_groups.py, google_sheets.py)   *)
(* ------------------------------------------------------------------------ *)
GroupKeys == {"g1@example.com", "g2@example.com"}
MemberKeys == {"m1@example.com"}
Roles == {"MEMBER", "OWNER"}
MemberTypes == {"USER", "GROUP"}
Deliveries == {"ALL_MAIL", "NONE"}
Names == {"Team", "Ops"}
SheetIds == {"sheet1"}
Ranges == {"A1:B2", "C1"}
Dimensions == {"ROWS", "COLUMNS"}
RenderOptions == {"FORMATTED_VALUE", "FORMULA"}
Opt(S) == {None} \cup {Some(x) : x \in S}

\* decoded JSON responses of the remote API
Responses == {[etag |-> "e1"], [etag |-> "e2"]}
Members == [etag : {"e1"}, role : Roles, delivery_settings : Deliveries]
HttpErrors == {"HttpError"}

\* what one .execute() can do: return a decoded response or raise
Outcomes(R) ==
    {[resp |-> Some(r), error |-> ""] : r \in R}
        \cup {[resp |-> None, error |-> e] : e \in HttpErrors}

\* variant: the body is built but not handed to the request
Request_nobody(method, params, body, o) ==
    [method |-> method, params |-> params, body |-> None, resp |-> o.resp, error |-> o.error]

\* one request built by the client library and executed
Request(method, params, body, o) ==
    [method |-> method, params |-> params, body |-> body, resp |-> o.resp, error |-> o.error]

\* variant: the return keyword is missing
Returned_none(op, a, c) ==
    [op |-> op, args |-> a, calls |-> <<c>>, ret |-> None, err |-> Propagate(c.error)]

\* `return <request>.execute()`
Returned(op, a, c) ==
    [op |-> op, args |-> a, calls |-> <<c>>,
     ret |-> IF c.error = "" THEN c.resp ELSE None, err |-> Propagate(c.error)]

\* `<request>.execute()` as a statement: the method returns None
Discarded(op, a, c) ==
    [op |-> op, args |-> a, calls |-> <<c>>, ret |-> None, err |-> Propagate(c.error)]

\* variant: the caller's value is dropped for the fallback value
Default_ignored(o, d) == d

\* a keyword argument left at its default
Default(o, d) == IF o = None THEN d ELSE Val(o)

\* google_groups.py 146-205: the body used when update_group_settings gets none
DefaultSettingsBody ==
    [kind |-> "groupsSettings#groups",
     whoCanJoin |-> "CAN_REQUEST_TO_JOIN",
     whoCanViewMembership |-> "ALL_IN_DOMAIN_CAN_VIEW",
     whoCanViewGroup |-> "ALL_MEMBERS_CAN_VIEW",
     whoCanInvite |-> "ALL_MANAGERS_CAN_INVITE",
     whoCanAdd |-> "ALL_MANAGERS_CAN_ADD",
     allowExternalMembers |-> "false",
     whoCanPostMessage |-> "ANYONE_CAN_POST",
     allowWebPosting |-> "false",
     maxMessageBytes |-> 26214400,
     isArchived |-> "true",
     archiveOnly |-> "false",
     messageModerationLevel |-> "MODERATE_NONE",
     spamModerationLevel |-> "MODERATE",
     replyTo |-> "REPLY_TO_IGNORE",
     customReplyTo |-> "",
     includeCustomFooter |-> "false",
     customFooterText |-> "",
     sendMessageDenyNotification |-> "false",
     defaultMessageDenyNotificationText |-> "",
     showInGroupDirectory |-> "false",
     allowGoogleCommunication |-> "false",
     membersCanPostAsTheGroup |-> "false",
     messageDisplayFont |-> "DEFAULT_FONT",
     includeInGlobalAddressList |-> "true",
     whoCanLeaveGroup |-> "ALL_MEMBERS_CAN_LEAVE",
     whoCanContactOwner |-> "ALL_IN_DOMAIN_CAN_CONTACT",
     whoCanAddReferences |-> "NONE",
     whoCanAssignTopics |-> "NONE",
     whoCanUnassignTopic |-> "NONE",
     whoCanTakeTopics |-> "NONE",
     whoCanMarkDuplicate |-> "NONE",
     whoCanMarkNoResponseNeeded |-> "NONE",
     whoCanMarkFavoriteReplyOnAnyTopic |-> "NONE",
     whoCanMarkFavoriteReplyOnOwnTopic |-> "NONE",
     whoCanUnmarkFavoriteReplyOnAnyTopic |-> "NONE",
     whoCanEnterFreeFormTags |-> "NONE",
     whoCanModifyTagsAndCategories |-> "NONE",
     favoriteRepliesOnTop |-> "false",
     whoCanApproveMembers |-> "ALL_MANAGERS_CAN_APPROVE",
     whoCanBanUsers |-> "OWNERS_AND_MANAGERS",
     whoCanModifyMembers |-> "OWNERS_AND_MANAGERS",
     whoCanApproveMessages |-> "OWNERS_AND_MANAGERS",
     whoCanDeleteAnyPost |-> "OWNERS_AND_MANAGERS",
     whoCanDeleteTopics |-> "OWNERS_AND_MANAGERS",
     whoCanLockTopics |-> "OWNERS_AND_MANAGERS",
     whoCanMoveTopicsIn |-> "OWNERS_AND_MANAGERS",
     whoCanMoveTopicsOut |-> "OWNERS_AND_MANAGERS",
     whoCanPostAnnouncements |-> "OWNERS_AND_MANAGERS",
     whoCanHideAbuse |-> "NONE",
     whoCanMakeTopicsSticky |-> "NONE",
     whoCanModerateMembers |-> "OWNERS_AND_MANAGERS",
     whoCanModerateContent |-> "OWNERS_AND_MANAGERS",
     whoCanAssistContent |-> "NONE",
     customRolesEnabledForSettingsToBeMerged |-> "false",
     enableCollaborativeInbox |-> "false",
     whoCanDiscoverGroup |-> "ALL_MEMBERS_CAN_DISCOVER"]

\* google_groups.py 49-87
create_group ==
    /\ \E email \in GroupKeys, name \in Names, description \in {"about"}, o \in Outcomes(Responses) :
           last' = Returned("create_group",
                       [email |-> email, name |-> name, description |-> description],
                       Request("groups.insert", <<>>,
                           Some([email |-> email, name |-> name, description |-> description]), o))
    /\ UNCHANGED authVars

\* google_groups.py 89-120
get_group ==
    /\ \E group_key \in GroupKeys, o \in Outcomes(Responses) :
           last' = Returned("get_group", [group_key |-> group_key],
                       Request("groups.get", [groupKey |-> group_key], None, o))
    /\ UNCHANGED authVars

\* google_groups.py 122-132
delete_group ==
    /\ \E group_key \in GroupKeys, o \in Outcomes(Responses) :
           last' = Discarded("delete_group", [group_key |-> group_key],
                       Request("groups.delete", [groupKey |-> group_key], None, o))
    /\ UNCHANGED authVars

\* google_groups.py 134-207
update_group_settings ==
    /\ \E group_email \in GroupKeys, body \in Opt({[whoCanJoin |-> "INVITED_CAN_JOIN"]}),
          o \in Outcomes(Responses) :
           last' = Returned("update_group_settings", [group_email |-> group_email, body |-> body],
                       Request("groupsettings.groups.patch", [groupUniqueId |-> group_email],
                           Some(IF body = None THEN DefaultSettingsBody ELSE Val(body)), o))
    /\ UNCHANGED authVars

\* google_groups.py 209-230
get_member ==
    /\ \E group_key \in GroupKeys, member_key \in MemberKeys, o \in Outcomes(Members) :
           last' = Returned("get_member", [group_key |-> group_key, member_key |-> member_key],
                       Request("members.get", [groupKey |-> group_key, memberKey |-> member_key], None, o))
    /\ UNCHANGED authVars

\* google_groups.py 232-273
add_member ==
    /\ \E group_key \in GroupKeys, member_email \in MemberKeys, member_role \in Roles,
          member_type \in Opt(MemberTypes), delivery_settings \in Opt(Deliveries),
          o \in Outcomes(Responses) :
           last' = Returned("add_member",
                       [group_key |-> group_key, member_email |-> member_email,
                        member_role |-> member_role, member_type |-> member_type,
                        delivery_settings |-> delivery_settings],
                       Request("members.insert", [groupKey |-> group_key],
                           Some([delivery_settings |-> Default(delivery_settings, "ALL_MAIL"),
                                 role |-> member_role,
                                 type |-> Default(member_type, "USER"),
                                 email |-> member_email]), o))
    /\ UNCHANGED authVars

\* google_groups.py 275-310: get_member, then members.patch
update_member ==
    /\ \E group_key \in GroupKeys, member_key \in MemberKeys,
          member_role \in Opt(Roles), delivery_settings \in Opt(Deliveries),
          g \in Outcomes(Members), o \in Outcomes(Responses) :
           LET a == [group_key |-> group_key, member_key |-> member_key,
                     member_role |-> member_role, delivery_settings |-> delivery_settings]
               get == Request("members.get", [groupKey |-> group_key, memberKey |-> member_key], None, g)
               body == [delivery_settings |-> Default(delivery_settings, Val(g.resp).delivery_settings),
                        role |-> Default(member_role, Val(g.resp).role)]
               patch == Request("members.patch", [groupKey |-> group_key, memberKey |-> member_key],
                            Some(body), o)
           IN  last' = IF g.error # ""
                       THEN [op |-> "update_member", args |-> a, calls |-> <<get>>,
                             ret |-> None, err |-> Propagate(g.error)]
                       ELSE [op |-> "update_member", args |-> a, calls |-> <<get, patch>>,
                             ret |-> IF o.error = "" THEN o.resp ELSE None,
                             err |-> Propagate(o.error)]
    /\ UNCHANGED authVars

\* google_groups.py 312-325
delete_member ==
    /\ \E group_key \in GroupKeys, member_key \in MemberKeys, o \in Outcomes(Responses) :
           last' = Discarded("delete_member", [group_key |-> group_key, member_key |-> member_key],
                       Request("members.delete", [groupKey |-> group_key, memberKey |-> member_key], None, o))
    /\ UNCHANGED authVars

\* google_groups.py 327-359
list_members ==
    /\ \E group_key \in GroupKeys, o \in Outcomes(Responses) :
           last' = Returned("list_members", [group_key |-> group_key],
                       Request("members.list", [groupKey |-> group_key], None, o))
    /\ UNCHANGED authVars

\* google_sheets.py 41-95
get_values ==
    /\ \E spreadsheet_id \in SheetIds, range \in Ranges,
          major_dimension \in Opt(Dimensions), value_render_option \in Opt(RenderOptions),
          o \in Outcomes(Responses) :
           last' = Returned("get_values",
                       [spreadsheet_id |-> spreadsheet_id, range |-> range,
                        major_dimension |-> major_dimension,
                        value_render_option |-> value_render_option],
                       Request("spreadsheets.values.get",
                           [spreadsheetId |-> spreadsheet_id, range |-> range,
                            majorDimension |-> Default(major_dimension, "ROWS"),
                            valueRenderOption |-> Default(value_render_option, "FORMATTED_VALUE")],
                           None, o))
    /\ UNCHANGED authVars

\* both clients constructed in service_account mode: no token file involved
InitClient == Init /\ file = NoFile

NextClient ==
    \/ create_group
    \/ get_group
    \/ delete_group
    \/ update_group_settings
    \/ get_member
    \/ add_member
    \/ update_member
    \/ delete_member
    \/ list_members
    \/ get_values

SpecClient == InitClient /\ [][NextClient]_vars

(* ------------------------------------------------------------------------ *)
(* A client built over the interactive flow, then used: every remote call   *)
(* of the library (refresh, consent and code exchange, REST)                *)
(* ------------------------------------------------------------------------ *)
\* GoogleGroups.__init__ / GoogleSheets.__init__ in server_side mode
ConstructorArgs ==
    {a \in ArgSets : /\ a.auth_mode = server_side
                     /\ a.client_secrets = "key.json"
                     /\ a.delegated_email_address = None
                     /\ a.local_server_port # None}

Construct(p) == CallWith(p, ConstructorArgs)

\* the caller holds a client on which no operation was made yet
ClientReady == (\A p \in SingleCaller : pc[p] = "returned") /\ last = NoOp

NextRemote ==
    \/ \E p \in SingleCaller :
          \/ Construct(p)
          \/ SswExists(p)
          \/ SswOpenRead(p)
          \/ SswLoad(p)
          \/ SswCloseRead(p)
          \/ SswCheck(p)
          \/ SswRefresh(p)
          \/ SswFlow(p)
          \/ SswOpenWrite(p)
          \/ SswDump(p)
          \/ SswCloseWrite(p)
    \/ Tick
    \* the first operation on the client just built (an operation only
    \* replaces `last`, so later operations reach no further state)
    \/ ClientReady /\ create_group
    \/ ClientReady /\ get_group
    \/ ClientReady /\ delete_group
    \/ ClientReady /\ update_group_settings
    \/ ClientReady /\ get_member
    \/ ClientReady /\ add_member
    \/ ClientReady /\ update_member
    \/ ClientReady /\ delete_member
    \/ ClientReady /\ list_members
    \/ ClientReady /\ get_values

SpecRemote == Init /\ [][NextRemote]_vars

(* ------------------------------------------------------------------------ *)
(* Properties                                                               *)
(* ------------------------------------------------------------------------ *)
RECURSIVE Count(_, _)
Count(seq, e) ==
    IF seq = <<>> THEN 0
    ELSE (IF Head(seq) = e THEN 1 ELSE 0) + Count(Tail(seq), e)
Has(seq, e) == \E i \in DOMAIN seq : seq[i] = e

Called(p) == pc[p] # "idle"
ConfigErrors == {"ValueError: auth_mode", "ValueError: local_server_port",
                 "ValueError: delegated_email_address"}

\* C1: a call whose auth_mode is neither "server_side" nor "service_account"
\* has raised the auth_mode ValueError and has done nothing else: no helper,
\* no network call, no consent, no access to the token file.
C1_InvalidModeRejected ==
    \A p \in Procs :
        (Called(p) /\ args[p].auth_mode \notin {"server_side", "service_account"})
            => /\ pc[p] = "raised"
               /\ err[p] = "ValueError: auth_mode"
               /\ events[p] = <<>>
               /\ handle[p] = "none"
               /\ result[p] = None

C1_Witness ==
    /\ pc[1] = "raised"
    /\ args[1].auth_mode = "interactive"
    /\ args[1].local_server_port # None
    /\ err[1] = "ValueError: auth_mode"

\* C2: the selected mode's required parameter is enforced, and only that one:
\* server_side without local_server_port and service_account without
\* delegated_email_address raise their ValueError before anything is done,
\* whatever the other parameters are; with the required parameter present
\* the helper of the mode is entered and no configuration error is raised.
C2_RequiredParameter ==
    \A p \in Procs :
        LET a == args[p] IN
        Called(p) =>
            /\ (a.auth_mode = "server_side" /\ a.local_server_port = None)
                 => (pc[p] = "raised" /\ err[p] = "ValueError: local_server_port"
                     /\ events[p] = <<>> /\ handle[p] = "none")
            /\ (a.auth_mode = "service_account" /\ a.delegated_email_address = None)
                 => (pc[p] = "raised" /\ err[p] = "ValueError: delegated_email_address"
                     /\ events[p] = <<>> /\ handle[p] = "none")
            /\ (a.auth_mode = "server_side" /\ a.local_server_port # None)
                 => (err[p] \notin ConfigErrors /\ events[p] # <<>>
                     /\ events[p][1] = "server_side_web_apps_auth")
            /\ (a.auth_mode = "service_account" /\ a.delegated_email_address # None)
                 => (err[p] \notin ConfigErrors /\ events[p] # <<>>
                     /\ events[p][1] = "service_account_auth")

C2_Witness ==
    /\ pc[1] = "raised"
    /\ args[1].auth_mode = "server_side"
    /\ args[1].local_server_port = None
    /\ args[1].delegated_email_address # None
    /\ err[1] = "ValueError: local_server_port"

\* C3 as stated: a call with mode "interactive" and a callback port, and a
\* call with mode "service_account" and a delegated subject, do not raise the
\* invalid-mode error and enter the corresponding flow.
C3_Original ==
    \A p \in Procs :
        LET a == args[p] IN
        Called(p) =>
            /\ (a.auth_mode = "interactive" /\ a.local_server_port # None)
                 => (err[p] # "ValueError: auth_mode" /\ events[p] # <<>>
                     /\ events[p][1] = "server_side_web_apps_auth")
            /\ (a.auth_mode = "service_account" /\ a.delegated_email_address # None)
                 => (err[p] # "ValueError: auth_mode" /\ events[p] # <<>>
                     /\ events[p][1] = "service_account_auth")

\* C3 amended: the interactive mode is selected by the literal "server_side";
\* with a callback port it enters the interactive flow, and "service_account"
\* with a delegated subject enters the service-account flow; neither raises
\* the invalid-mode error.
C3_ValidModesAccepted ==
    \A p \in Procs :
        LET a == args[p] IN
        Called(p) =>
            /\ (a.auth_mode = "server_side" /\ a.local_server_port # None)
                 => (err[p] # "ValueError: auth_mode" /\ events[p] # <<>>
                     /\ events[p][1] = "server_side_web_apps_auth")
            /\ (a.auth_mode = "service_account" /\ a.delegated_email_address # None)
                 => (err[p] # "ValueError: auth_mode" /\ events[p] # <<>>
                     /\ events[p][1] = "service_account_auth")

C3_Witness ==
    /\ pc[1] = "returned"
    /\ args[1].auth_mode = "server_side"
    /\ result[1] # None
    /\ Has(events[1], "consent")

\* the credential line 125 looked at was loaded from the file and valid
CachedValid(p) ==
    /\ chk[p].seen
    /\ chk[p].cred # None
    /\ Val(chk[p].cred).token # None
    /\ ~Expired(Val(chk[p].cred), chk[p].now)

\* C4: an interactive acquisition that finds the cached credential valid
\* returns that credential with no consent flow, no refresh call and no write.
C4_CachedCredentialReused ==
    \A p \in Procs :
        (pc[p] = "returned" /\ args[p].auth_mode = "server_side" /\ CachedValid(p))
            => /\ ~Has(events[p], "consent")
               /\ ~Has(events[p], "refresh")
               /\ ~Has(events[p], "open_wb")
               /\ result[p] = chk[p].cred

\* a later acquisition reusing what an earlier one obtained and persisted
C4_Witness ==
    /\ pc[1] = "returned"
    /\ args[1].auth_mode = "server_side"
    /\ CachedValid(1)
    /\ nextTok >= 1
    /\ file0[1].exists
    /\ file0[1].data = pickle_dump(Val(result[1]))
    /\ ~Has(events[1], "consent")

\* the credential line 125 looked at is expired and carries a refresh token
CachedRefreshable(p) ==
    /\ chk[p].seen
    /\ chk[p].cred # None
    /\ Expired(Val(chk[p].cred), chk[p].now)
    /\ Val(chk[p].cred).refresh_token # None

\* C5: in one interactive acquisition refresh and consent are never both
\* performed and neither is performed twice; refresh happens only for an
\* expired cached credential with a refresh token, consent only in the other
\* not-valid cases; an acquisition that returns after finding no valid cached
\* credential has done exactly one of them and the token file holds the
\* pickle of the credential it returns.
C5_RefreshOrConsent ==
    \A p \in Procs :
        LET r == Count(events[p], "refresh")
            k == Count(events[p], "consent")
        IN  /\ r + k <= 1
            /\ r = 1 => CachedRefreshable(p)
            /\ k = 1 => (chk[p].seen /\ ~CachedValid(p) /\ ~CachedRefreshable(p))
            /\ (pc[p] = "returned" /\ args[p].auth_mode = "server_side" /\ ~CachedValid(p))
                 => /\ r + k = 1
                    /\ r = 1 <=> CachedRefreshable(p)
                    /\ Count(events[p], "dump") = 1
                    /\ file = [exists |-> TRUE, data |-> pickle_dump(Val(result[p]))]
                    /\ r = 1 => (Val(result[p]).refresh_token = Val(chk[p].cred).refresh_token
                                 /\ Val(result[p]).token # Val(chk[p].cred).token)

C5_Witness ==
    /\ pc[1] = "returned"
    /\ Count(events[1], "refresh") = 1
    /\ CachedRefreshable(1)
    /\ file.data = pickle_dump(Val(result[1]))

\* the token file as the call found it cannot give a valid credential
InvalidAtLoad(p) ==
    \/ ~file0[p].exists
    \/ ~pickle_loadable(file0[p].data)
    \/ (chk[p].seen /\ chk[p].cred # None /\ ~CachedValid(p))

ReauthAttempted(p) ==
    Has(events[p], "refresh") \/ Has(events[p], "from_client_secrets_file")

\* C6 as stated: an interactive acquisition that found the token file absent
\* or invalid (not deserializable, or holding a credential that is not valid)
\* does not end at the load: it goes on to re-authorization.
C6_FallsThrough ==
    \A p \in Procs :
        (Done(p) /\ Has(events[p], "exists") /\ InvalidAtLoad(p)) => ReauthAttempted(p)

\* C7: a handle on the token file is open only between an open and the end
\* of its with block; none is open once the call has returned or raised, nor
\* when the refresh call or the consent flow is made.
C7_HandleReleased ==
    \A p \in Procs :
        /\ handle[p] = "rb" => pc[p] \in {"ssw_load", "ssw_close_rb"}
        /\ handle[p] = "wb" => pc[p] \in {"ssw_dump", "ssw_close_wb"}
        /\ (Done(p) \/ pc[p] \in {"ssw_refresh", "ssw_flow"}) => handle[p] = "none"

\* a call that raised out of a with block: a failed load or a failed dump
C7_Witness ==
    /\ pc[1] = "raised"
    /\ err[1] \in {"UnpicklingError", "PicklingError"}
    /\ handle[1] = "none"

\* C8: a finished service_account call has parsed the secret, then invoked
\* exactly one constructor: from_service_account_info iff the secret parses
\* as JSON, from_service_account_file otherwise; a returned credential has
\* the requested scopes and the delegated subject; there was no consent, no
\* refresh and no access to the token file.
C8_ServiceAccount ==
    \A p \in Procs :
        LET a == args[p]
            info == Count(events[p], "from_service_account_info")
            path == Count(events[p], "from_service_account_file")
        IN  (Done(p) /\ a.auth_mode = "service_account" /\ a.delegated_email_address # None)
              => /\ info + path = 1
                 /\ info = 1 <=> a.client_secrets \in InlineJson
                 /\ Len(events[p]) = 3
                 /\ events[p][1] = "service_account_auth"
                 /\ handle[p] = "none"
                 /\ file = file0[p]
                 /\ pc[p] = "returned" =>
                      /\ result[p] # None
                      /\ Val(result[p]).kind = "service_account"
                      /\ Val(result[p]).scopes = a.oauth2_scopes
                      /\ Val(result[p]).subject = a.delegated_email_address

C8_Witness ==
    /\ pc[1] = "returned"
    /\ args[1].auth_mode = "service_account"
    /\ args[1].client_secrets = "key.json"
    /\ Has(events[1], "from_service_account_file")
    /\ file0[1].exists

\* C9 as stated: every client operation issues exactly one REST call and,
\* when the call succeeds, returns its decoded response.
C9_Original ==
    last.op # "none" =>
        /\ Len(last.calls) = 1
        /\ last.err = "" => last.ret = last.calls[1].resp

\* C9 amended: every operation but update_member issues exactly one REST
\* call; update_member issues members.get and, only if that succeeds, one
\* members.patch; a successful operation returns the decoded response of its
\* last call, except delete_group and delete_member, which return None.
C9_CallsAndResult ==
    last.op # "none" =>
        LET n == Len(last.calls) IN
        /\ last.op # "update_member" => n = 1
        /\ last.op = "update_member" =>
             /\ n \in {1, 2}
             /\ last.calls[1].method = "members.get"
             /\ n = 1 <=> last.calls[1].error # ""
             /\ n = 2 => last.calls[2].method = "members.patch"
        /\ last.err = "" =>
             last.ret = IF last.op \in {"delete_group", "delete_member"}
                        THEN None ELSE last.calls[n].resp

C9_Witness ==
    /\ last.op = "update_member"
    /\ Len(last.calls) = 2
    /\ last.err = ""
    /\ last.ret = last.calls[2].resp

AllRemoteErrors == RemoteErrors \cup FlowErrors

\* C10: a remote call that fails is the last thing its operation does, and
\* the operation ends with the error the call raised: after a failed refresh
\* or consent the acquisition has raised that error, made no other refresh
\* or consent and written nothing; after a failed REST call the client
\* operation has issued no further call, returned nothing and has that error.
C10_NoRetryNoTranslation ==
    /\ \A p \in Procs : \A i \in DOMAIN events[p] :
          events[p][i] \in AllRemoteErrors
            => /\ i = Len(events[p])
               /\ pc[p] = "raised"
               /\ err[p] = events[p][i]
               /\ Count(events[p], "refresh") + Count(events[p], "consent") = 1
               /\ ~Has(events[p], "open_wb")
    /\ \A i \in DOMAIN last.calls :
          last.calls[i].error # ""
            => /\ i = Len(last.calls)
               /\ last.err = last.calls[i].error
               /\ last.ret = None
    /\ \A i, j \in DOMAIN last.calls :
          (last.calls[i].method = last.calls[j].method) => i = j

\* a refresh that failed: no consent flow stands in for it
C10_Witness ==
    /\ pc[1] = "raised"
    /\ err[1] = "RefreshError"
    /\ Has(events[1], "refresh")
    /\ ~Has(events[1], "consent")

\* the value an optional keyword argument has inside the method
Given(o, d) == IF o = None THEN d ELSE o[1]

\* C11: the first (for all but update_member, the only) request of an
\* operation carries the caller's arguments unchanged: create_group a body of
\* exactly email, name, description; add_member groupKey and a body of exactly
\* delivery_settings, role, type, email (type "USER" and delivery_settings
\* "ALL_MAIL" when omitted); get_values spreadsheetId, range, majorDimension,
\* valueRenderOption ("ROWS", "FORMATTED_VALUE" when omitted); the key-only
\* operations the caller's group and member key.
C11_PassThrough ==
    LET a == last.args
        c == last.calls[1]
    IN  /\ last.op = "create_group" =>
             /\ c.body # None
             /\ DOMAIN c.body[1] = {"email", "name", "description"}
             /\ c.body[1].email = a.email
             /\ c.body[1].name = a.name
             /\ c.body[1].description = a.description
        /\ last.op = "add_member" =>
             /\ c.params = [groupKey |-> a.group_key]
             /\ c.body # None
             /\ DOMAIN c.body[1] = {"delivery_settings", "role", "type", "email"}
             /\ c.body[1].delivery_settings = Given(a.delivery_settings, "ALL_MAIL")
             /\ c.body[1].role = a.member_role
             /\ c.body[1].type = Given(a.member_type, "USER")
             /\ c.body[1].email = a.member_email
        /\ last.op = "get_values" =>
             /\ DOMAIN c.params = {"spreadsheetId", "range", "majorDimension", "valueRenderOption"}
             /\ c.params.spreadsheetId = a.spreadsheet_id
             /\ c.params.range = a.range
             /\ c.params.majorDimension = Given(a.major_dimension, "ROWS")
             /\ c.params.valueRenderOption = Given(a.value_render_option, "FORMATTED_VALUE")
             /\ c.body = None
        /\ last.op \in {"get_group", "delete_group", "list_members"} =>
             (c.params = [groupKey |-> a.group_key] /\ c.body = None)
        /\ last.op \in {"get_member", "delete_member", "update_member"} =>
             (c.params = [groupKey |-> a.group_key, memberKey |-> a.member_key] /\ c.body = None)
        /\ last.op = "update_group_settings" =>
             c.params = [groupUniqueId |-> a.group_email]

\* add_member with a caller-chosen type and delivery setting
C11_Witness ==
    /\ last.op = "add_member"
    /\ last.args.member_type = Some("GROUP")
    /\ last.args.delivery_settings = Some("NONE")
    /\ last.calls[1].body[1].type = "GROUP"
    /\ last.calls[1].params.groupKey = "g2@example.com"

\* C13: update_member issues members.get for the caller's keys first; if it
\* fails nothing else is sent; otherwise it sends one members.patch for the
\* same keys whose body has exactly delivery_settings and role, each the
\* caller's argument when given and the fetched member's value when omitted.
C13_UpdateMember ==
    last.op = "update_member" =>
        LET a == last.args
            get == last.calls[1]
            keys == [groupKey |-> a.group_key, memberKey |-> a.member_key]
        IN  /\ get.method = "members.get"
            /\ get.params = keys
            /\ get.error # "" => (Len(last.calls) = 1 /\ last.err = get.error)
            /\ get.error = "" =>
                 LET patch == last.calls[2]
                     fetched == get.resp[1]
                 IN  /\ Len(last.calls) = 2
                     /\ patch.method = "members.patch"
                     /\ patch.params = keys
                     /\ patch.body # None
                     /\ DOMAIN patch.body[1] = {"delivery_settings", "role"}
                     /\ patch.body[1].role =
                          (IF a.member_role = None THEN fetched.role ELSE a.member_role[1])
                     /\ patch.body[1].delivery_settings =
                          (IF a.delivery_settings = None THEN fetched.delivery_settings
                           ELSE a.delivery_settings[1])

\* a call that changes the role only: the delivery setting sent is the fetched one
C13_Witness ==
    /\ last.op = "update_member"
    /\ Len(last.calls) = 2
    /\ last.args.member_role = Some("OWNER")
    /\ last.args.delivery_settings = None
    /\ last.calls[1].resp[1].role = "MEMBER"
    /\ last.calls[1].resp[1].delivery_settings = "NONE"
    /\ last.calls[2].body[1] = [delivery_settings |-> "NONE", role |-> "OWNER"]

\* C14 as stated: every credential an interactive acquisition returns was
\* authorized for the oauth2_scopes requested in that call.
C14_ScopeCoverage ==
    \A p \in Procs :
        (pc[p] = "returned" /\ args[p].auth_mode = "server_side")
            => Val(result[p]).scopes = args[p].oauth2_scopes

\* C15: an interactive acquisition by the only caller that finds a valid
\* cached credential has not opened the token file for writing, and one whose
\* refresh call or consent flow failed has not either: in both cases the file
\* is what it was when the call started. The file differs from what the call
\* found only after a refresh or consent of that call went through.
C15_FileFrame ==
    \A p \in SingleCaller :
        LET n == Len(events[p])
            failed == n > 0 /\ events[p][n] \in AllRemoteErrors
            reauth == Count(events[p], "refresh") + Count(events[p], "consent")
        IN  /\ (pc[p] = "returned" /\ args[p].auth_mode = "server_side" /\ CachedValid(p))
                 => (file = file0[p] /\ ~Has(events[p], "open_wb"))
            /\ (pc[p] = "raised" /\ failed)
                 => (file = file0[p] /\ ~Has(events[p], "open_wb"))
            /\ (Called(p) /\ file # file0[p])
                 => (reauth = 1 /\ ~failed /\ Has(events[p], "open_wb"))

\* a consent that was denied while a token file was already there
C15_Witness ==
    /\ pc[1] = "raised"
    /\ err[1] = "AccessDeniedError"
    /\ file0[1].exists
    /\ file0[1].data # Truncated
    /\ file = file0[1]

\* C16: whenever an interactive acquisition by the only caller has returned,
\* the token file exists and unpickles to exactly the credential returned,
\* whether it came from the cache, a refresh or a consent.
C16_CacheAgreesWithResult ==
    \A p \in SingleCaller :
        (pc[p] = "returned" /\ args[p].auth_mode = "server_side")
            => /\ file.exists
               /\ pickle_loadable(file.data)
               /\ pickle_load(file.data) = Val(result[p])

\* a refreshed credential, with its refresh token, is what the file holds
C16_Witness ==
    /\ pc[1] = "returned"
    /\ args[1].auth_mode = "server_side"
    /\ Has(events[1], "refresh")
    /\ Val(result[1]).refresh_token # None
    /\ pickle_load(file.data) = Val(result[1])

(* ------------------------------------------------------------------------ *)
(* Two callers (threads or processes) acquiring on the same token file      *)
(* ------------------------------------------------------------------------ *)
\* both callers construct the same client in server_side mode
ConcurrentArgs == {a \in ConstructorArgs : a.oauth2_scopes = GroupsScopes}

\* a token file written by an earlier run whose access token has expired
ExpiredCred == OAuthCred(Some(0), Some(0), Some("rt"), GroupsScopes)
ConcFiles == InitFiles \cup {[exists |-> TRUE, data |-> pickle_dump(ExpiredCred)]}

InitConc ==
    /\ file \in ConcFiles
    /\ now = 0
    /\ nextTok = 0
    /\ pc = [p \in Procs |-> "idle"]
    /\ args = [p \in Procs |-> NoArgs]
    /\ credentials = [p \in Procs |-> None]
    /\ handle = [p \in Procs |-> "none"]
    /\ events = [p \in Procs |-> <<>>]
    /\ chk = [p \in Procs |-> NoChk]
    /\ file0 = [p \in Procs |-> NoFile]
    /\ result = [p \in Procs |-> None]
    /\ err = [p \in Procs |-> ""]
    /\ last = NoOp

\* each caller constructs its client once
Acquire(p) == pc[p] = "idle" /\ CallWith(p, ConcurrentArgs)

NextConc ==
    \/ \E p \in Procs :
          \/ Acquire(p)
          \/ SswExists(p)
          \/ SswOpenRead(p)
          \/ SswLoad(p)
          \/ SswCloseRead(p)
          \/ SswCheck(p)
          \/ SswRefresh(p)
          \/ SswFlow(p)
          \/ SswOpenWrite(p)
          \/ SswDump(p)
          \/ SswCloseWrite(p)
    \/ Tick

SpecConc == InitConc /\ [][NextConc]_vars

\* caller p has returned from a call in which it re-authorized and saved
Reauthorized(p) ==
    /\ pc[p] = "returned"
    /\ Has(events[p], "refresh") \/ Has(events[p], "consent")
    /\ Has(events[p], "dump")

\* C12: no step of an acquisition waits for, or is disabled by, the other
\* caller's position, so two acquisitions overlap freely; whenever both have
\* returned after re-authorizing, they hold different credentials and the
\* token file unpickles to exactly one of them (the one saved last), so it
\* disagrees with the credential returned to the other caller.
C12_LastWriterOnly ==
    (\A p \in Procs : Reauthorized(p)) =>
        /\ result[1] # result[2]
        /\ file.exists
        /\ pickle_loadable(file.data)
        /\ \E w \in Procs :
              /\ pickle_load(file.data) = Val(result[w])
              /\ \A q \in Procs \ {w} : pickle_load(file.data) # Val(result[q])

\* both callers started while no token file existed, both ran the consent
\* flow and both wrote; the file holds the second caller's credential only
C12_Witness ==
    /\ \A p \in Procs : Reauthorized(p) /\ ~file0[p].exists /\ Has(events[p], "consent")
    /\ pickle_load(file.data) = Val(result[2])
    /\ pickle_load(file.data) # Val(result[1])
    /\ Val(result[1]).token = Some(2)

====
